---- MODULE Spec2Model ----
(***************************************************************************)
(* Model of the argparser library: the option registry (argparser_setup),  *)
(* the argument classifier (argparser_parse), the result accessors, the    *)
(* help renderer (argparser_help, argparser_opt_help) and the teardown     *)
(* (argparser_clean), as implemented by the latest revision of the library *)
(* in src/src/main.c (lines 381-1374), together with the text-layout       *)
(* functions strwrap / strjoin.                                            *)
(*                                                                         *)
(* C strings are sequences of one-character strings; the empty sequence is *)
(* the empty string "".  The NUL character of ch_short is Nul.             *)
(***************************************************************************)
EXTENDS Integers, Sequences, FiniteSets, TLC

VARIABLES
    options,       \* the caller's descriptor table, sentinel included
    argv,          \* the process argument vector; argv[1] is the program name
    status,        \* "run", "exit" once argparser_error has called exit(1),
                   \* "crash" or "hang" after a read or write out of bounds
    err,           \* the message argparser_error printed, NoErr before
    mem,           \* the static `mem`: NullMem or the memory record
    setup_called,  \* the static `called` of argparser_setup
    parse_called,  \* the static `called` of argparser_parse
    group_called,  \* the static `called` of group_options
    ret,           \* what the last completed public call handed to its caller
    parse_calls,   \* history: how many calls of argparser_parse were made
    parse_returns, \* history: how many of them returned to the caller
    setup_calls,   \* history: how many calls of argparser_setup were made
    setup_args,    \* history: the arguments argparser_setup last looked at
    allocated,     \* the heap blocks the engine has obtained from calloc/malloc
    freed,         \* the blocks argparser_clean has passed to free, in order
    clean_calls,   \* history: how many calls of argparser_clean were made
    layout_in,     \* the arguments of a call of strwrap or strjoin
    layout_out     \* what that call appended to an empty dest

\* The heap, the history of setup and the text-layout calls
heapVars == <<allocated, freed, clean_calls>>
setupHist == <<setup_calls, setup_args>>
layoutVars == <<layout_in, layout_out>>

vars == <<options, argv, status, err, mem, setup_called, parse_called,
          group_called, ret, parse_calls, parse_returns, setup_calls,
          setup_args, allocated, freed, clean_calls, layout_in, layout_out>>

\* ------------------------------------------------------------------------
\* Bounds of the model
\* ------------------------------------------------------------------------
MaxOpts == 2
MaxArgs == 2
MaxLabels == 4
MaxParseCalls == 2
MaxCleanCalls == 2
MaxText == 4
MaxLine == 4
MaxIndent == 2

\* ------------------------------------------------------------------------
\* Characters and strings
\* ------------------------------------------------------------------------
Nul == ""

Alnum == {"a", "b", "c", "d", "e", "f", "g", "h", "i", "j", "k", "l", "m",
          "n", "o", "p", "q", "r", "s", "t", "u", "v", "w", "x", "y", "z",
          "A", "B", "C", "D", "O", "0", "1", "2", "3", "4", "5", "6", "7",
          "8", "9"}

isalnum(c) == c \in Alnum


\* Mutant: a string of spaces only counts as text
has_text_nonempty(str) == str # <<>>

\* has_text: not NULL, not empty and not made of spaces only
has_text(str) == \E i \in 1..Len(str) : str[i] # " "

\* has_alnum_text: has text and every character is a letter or a digit
has_alnum_text(str) ==
    /\ has_text(str)
    /\ \A i \in 1..Len(str) : isalnum(str[i])

\* ------------------------------------------------------------------------
\* Option descriptors
\* ------------------------------------------------------------------------
Opt(b, sh, lg, kw, hint, desc, grp) ==
    [b |-> b, ch_short |-> sh, s_long |-> lg, s_keyword |-> kw,
     s_hint |-> hint, s_desc |-> desc, s_group |-> grp]

\* O_END(): the end mark of an option definition
O_END == Opt(FALSE, Nul, <<>>, <<>>, <<>>, <<>>, <<>>)

is_end_mark(o) ==
    /\ o.b = FALSE
    /\ o.ch_short = Nul
    /\ ~has_text(o.s_long)
    /\ ~has_text(o.s_keyword)
    /\ ~has_text(o.s_hint)
    /\ ~has_text(o.s_desc)
    /\ ~has_text(o.s_group)

is_valid_option(o) ==
    /\ ~(o.ch_short # Nul /\ ~isalnum(o.ch_short))
    /\ ~(has_text(o.s_long) /\ ~has_alnum_text(o.s_long))
    /\ ~(has_text(o.s_keyword) /\ ~has_alnum_text(o.s_keyword))
    /\ (o.ch_short # Nul \/ has_text(o.s_long) \/ has_text(o.s_keyword))
    /\ ~(o.b = FALSE /\ ~has_text(o.s_hint))
    /\ ~(o.b /\ has_text(o.s_hint))
    /\ has_text(o.s_desc)

\* ------------------------------------------------------------------------
\* The caller's table: scan to the sentinel, duplicate identifiers
\* ------------------------------------------------------------------------
\* The descriptor at C index i (os + i)
At(os, i) == os[i + 1]

\* argparser_setup's scan: the number of descriptors before the first end mark
RECURSIVE ScanSize(_, _)
ScanSize(os, n) ==
    IF is_end_mark(At(os, n)) THEN n ELSE ScanSize(os, n + 1)

\* Mutant: only the short identifiers are compared
has_duplicated_ids_short_only(os, size) ==
    \E i \in 0..(size - 1) : \E j \in 0..(i - 1) :
        At(os, i).ch_short # Nul /\ At(os, i).ch_short = At(os, j).ch_short

has_duplicated_ids(os, size) ==
    \E i \in 0..(size - 1) : \E j \in 0..(i - 1) :
        LET new == At(os, i)
            old == At(os, j)
        IN \/ (new.ch_short # Nul /\ new.ch_short = old.ch_short)
           \/ (new.s_long # <<>> /\ new.s_long = old.s_long)
           \/ (new.s_keyword # <<>> /\ new.s_keyword = old.s_keyword)

\* ------------------------------------------------------------------------
\* Grouping and the help strings of an option
\* ------------------------------------------------------------------------
DefaultGroup == <<"O", "p", "t", "i", "o", "n", "s">>

\* format_desc_help: a copy of the description
format_desc_help(o) == o.s_desc

\* format_flag_help: "-c, --long, keyword, " with the last comma blanked,
\* followed by the hint of a non-boolean option
format_flag_help(o) ==
    LET t1 == IF o.ch_short # Nul THEN <<"-", o.ch_short, ",", " ">> ELSE <<>>
        t2 == IF has_text(o.s_long)
              THEN <<"-", "-">> \o o.s_long \o <<",", " ">> ELSE <<>>
        t3 == IF has_text(o.s_keyword)
              THEN o.s_keyword \o <<",", " ">> ELSE <<>>
        ln == t1 \o t2 \o t3
        cut == [k \in 1..Len(ln) |-> IF k = Len(ln) - 1 THEN " " ELSE ln[k]]
    IN IF o.b THEN cut ELSE cut \o o.s_hint

\* Mutant: every new group starts with the first descriptor of the table
NewGroup_first(name, os, i) ==
    [name |-> name, opts |-> <<0>>,
     flag_help |-> <<format_flag_help(At(os, 0))>>,
     desc_help |-> <<format_desc_help(At(os, 0))>>]

NewGroup(name, os, i) ==
    [name |-> name, opts |-> <<i>>,
     flag_help |-> <<format_flag_help(At(os, i))>>,
     desc_help |-> <<format_desc_help(At(os, i))>>]

AddToGroup(g, os, i) ==
    [g EXCEPT !.opts = Append(@, i),
              !.flag_help = Append(@, format_flag_help(At(os, i))),
              !.desc_help = Append(@, format_desc_help(At(os, i)))]

SetMax(S) == CHOOSE x \in S : \A y \in S : y <= x

\* The loop of group_options from index i on.  grps is mem->grps (empty when
\* NULL) and size_grps the loop's local counter, which the code sets to 1
\* with the first group and does not advance when it appends a group.
RECURSIVE group_loop(_, _, _, _, _)
group_loop(os, size, i, grps, size_grps) ==
    IF i >= size THEN grps
    ELSE
      LET name == IF ~has_text(At(os, i).s_group) THEN DefaultGroup
                  ELSE At(os, i).s_group
      IN IF grps = <<>>
         THEN group_loop(os, size, i + 1, <<NewGroup(name, os, 0)>>, 1)
         ELSE
           LET hits == {j \in 0..(size_grps - 1) : name = grps[j + 1].name}
               ind_grp == IF hits = {} THEN -1 ELSE SetMax(hits)
           IN IF ind_grp # -1
              THEN group_loop(os, size, i + 1,
                     [grps EXCEPT ![ind_grp + 1] = AddToGroup(@, os, i)],
                     size_grps)
              ELSE group_loop(os, size, i + 1,
                     Append(grps, NewGroup(name, os, i)), size_grps)

group_options(os, size) == group_loop(os, size, 0, <<>>, 0)

\* calc_indent: the longest flag_help of all the options, -1 when none
calc_indent(grps) ==
    LET lens == UNION {{Len(grps[i].flag_help[j]) :
                          j \in 1..Len(grps[i].flag_help)} : i \in 1..Len(grps)}
    IN IF lens = {} THEN -1 ELSE SetMax(lens)

\* ------------------------------------------------------------------------
\* The engine's memory and the classifier
\* ------------------------------------------------------------------------
NoErr == [msg |-> "none", arg |-> <<>>, idx |-> -1]
Error(msg, arg, idx) == [msg |-> msg, arg |-> arg, idx |-> idx]

\* calloc(1, sizeof(struct memory)): every pointer NULL, every size 0.  The
\* sizes size_grps, size_flags, size_bflags and size_params are the lengths
\* of grps, flags, bflags and params; an empty sequence is the NULL pointer.
ZeroMem == [null |-> FALSE, opts |-> <<>>, size_opts |-> 0, grps |-> <<>>,
            flags |-> <<>>, bflags |-> <<>>, params |-> <<>>,
            version |-> <<>>, indent |-> 0]
NullMem == [ZeroMem EXCEPT !.null = TRUE]

in_flags(m, index) == \E i \in 1..Len(m.flags) : index = m.flags[i]
in_bflags(m, index) == \E i \in 1..Len(m.bflags) : index = m.bflags[i]
add_to_flags(m, index) == [m EXCEPT !.flags = Append(@, index)]
\* Mutant: the index of a boolean option goes to the pool of the others
add_to_bflags_as_flags(m, index) == [m EXCEPT !.flags = Append(@, index)]

add_to_bflags(m, index) == [m EXCEPT !.bflags = Append(@, index)]

\* Mutant: a parameter that is already in the pool is not added again
add_to_params_unique(m, param) ==
    IF \E i \in 1..Len(m.params) : m.params[i] = param THEN m
    ELSE [m EXCEPT !.params = Append(@, param)]

add_to_params(m, param) == [m EXCEPT !.params = Append(@, param)]

\* Mutant: the index is added without looking for it in its pool
record_flag_always(m, j) ==
    IF At(m.opts, j).b THEN add_to_bflags(m, j) ELSE add_to_flags(m, j)

\* The body shared by the three lookups of argparser_parse once option j
\* has matched: record j unless it is already in its pool
record_flag(m, j) ==
    LET o == At(m.opts, j)
    IN IF o.b /\ ~in_bflags(m, j) THEN add_to_bflags(m, j)
       ELSE IF ~o.b /\ ~in_flags(m, j) THEN add_to_flags(m, j)
       ELSE m

SetMin(S) == CHOOSE x \in S : \A y \in S : x <= y

\* The first option index whose field matches, -1 when none (found == false)
find_long(m, name) ==
    LET hits == {j \in 0..(m.size_opts - 1) : name = At(m.opts, j).s_long}
    IN IF hits = {} THEN -1 ELSE SetMin(hits)

find_short(m, ch) ==
    LET hits == {j \in 0..(m.size_opts - 1) : ch = At(m.opts, j).ch_short}
    IN IF hits = {} THEN -1 ELSE SetMin(hits)

find_keyword(m, arg) ==
    LET hits == {j \in 0..(m.size_opts - 1) : arg = At(m.opts, j).s_keyword}
    IN IF hits = {} THEN -1 ELSE SetMin(hits)

\* A classification in progress: the memory and the error that ended it
Step(m, e) == [m |-> m, err |-> e]

\* Mutant: only the first character after the dash is resolved
parse_cluster_first_only(m, arg, pos) ==
    IF pos >= Len(arg) \/ pos > 1 THEN Step(m, NoErr)
    ELSE LET j == find_short(m, arg[pos + 1])
         IN IF j = -1 THEN Step(m, Error("Unknown flag", arg, -1))
            ELSE Step(record_flag(m, j), NoErr)

\* The while loop over the characters of a cluster "-abc", from C index pos
RECURSIVE parse_cluster(_, _, _)
parse_cluster(m, arg, pos) ==
    IF pos >= Len(arg) THEN Step(m, NoErr)
    ELSE LET j == find_short(m, arg[pos + 1])
         IN IF j = -1 THEN Step(m, Error("Unknown flag", arg, -1))
            ELSE parse_cluster(record_flag(m, j), arg, pos + 1)

\* Mutant: a name that matches no long field is kept as a parameter
parse_long_lenient(m, arg) ==
    IF Len(arg) + 1 = 3
    THEN Step(m, Error("Invalid argument, --", <<>>, -1))
    ELSE LET j == find_long(m, SubSeq(arg, 3, Len(arg)))
         IN IF j = -1 THEN Step(add_to_params(m, arg), NoErr)
            ELSE Step(record_flag(m, j), NoErr)

\* A token "--...": the bare "--" is invalid, a name is looked up in s_long
parse_long(m, arg) ==
    IF Len(arg) + 1 = 3
    THEN Step(m, Error("Invalid argument, --", <<>>, -1))
    ELSE LET j == find_long(m, SubSeq(arg, 3, Len(arg)))
         IN IF j = -1 THEN Step(m, Error("Unknown flag", arg, -1))
            ELSE Step(record_flag(m, j), NoErr)

\* A token of two characters or more that starts with no dash
parse_keyword(m, arg) ==
    LET j == find_keyword(m, arg)
    IN IF j = -1 THEN Step(add_to_params(m, arg), NoErr)
       ELSE Step(record_flag(m, j), NoErr)

\* Mutant: the dash of a one-character token is not looked at
parse_short_token_unchecked(m, arg) == Step(add_to_params(m, arg), NoErr)

\* A token of at most one character: "-" is invalid, anything else (the
\* empty token too) is a parameter
parse_short_token(m, arg) ==
    IF Len(arg) >= 1 /\ arg[1] = "-"
    THEN Step(m, Error("Invalid argument, -", <<>>, -1))
    ELSE Step(add_to_params(m, arg), NoErr)

\* One iteration of the for loop of argparser_parse
parse_token(m, arg) ==
    IF Len(arg) + 1 >= 3
    THEN IF arg[1] = "-"
         THEN IF arg[2] = "-" THEN parse_long(m, arg)
              ELSE parse_cluster(m, arg, 1)
         ELSE parse_keyword(m, arg)
    ELSE parse_short_token(m, arg)

\* The for loop of argparser_parse from C index i on; it ends at the first
\* token that calls argparser_error
RECURSIVE parse_loop(_, _, _, _)
parse_loop(m, argc, args, i) ==
    IF i >= argc THEN Step(m, NoErr)
    ELSE LET s == parse_token(m, args[i + 1])
         IN IF s.err # NoErr THEN s
            ELSE parse_loop(s.m, argc, args, i + 1)

\* Mutant: the loop starts at the program name
parse_args_from_zero(m, argc, args) == parse_loop(m, argc, args, 0)

\* for (int i = 1; i < argc; i++): the loop starts after the program name
parse_args(m, argc, args) == parse_loop(m, argc, args, 1)

\* ------------------------------------------------------------------------
\* Text layout: strwrap and strjoin
\* ------------------------------------------------------------------------
NL == "\n"
OpenChars == {"<", "'", "\"", "[", "{", "("}

\* C index i of a string
Ch(str, i) == str[i + 1]

\* strncat(dest, &src[from], n): at most n characters, up to the end of src;
\* n is a size_t, so a negative count copies all that is left
strn(src, from, n) ==
    IF n < 0 THEN SubSeq(src, from + 1, Len(src))
    ELSE SubSeq(src, from + 1, IF from + n > Len(src) THEN Len(src) ELSE from + n)

\* index_of_newline: the first newline at or after begin_index, -1 if none
index_of_newline(test, begin_index) ==
    LET hits == {i \in begin_index..(Len(test) - 1) : Ch(test, i) = NL}
    IN IF hits = {} THEN -1 ELSE SetMin(hits)

\* Mutant: the character at begin_index is passed over, blank or not
index_of_char_after(test, begin_index) ==
    IF begin_index + 1 < Len(test) THEN begin_index + 1 ELSE -1

\* index_of_char: the first character at or after begin_index that is not a
\* plain space, -1 if none
index_of_char(test, begin_index) ==
    LET hits == {i \in begin_index..(Len(test) - 1) :
                   isalnum(Ch(test, i)) \/ Ch(test, i) # " "}
    IN IF hits = {} THEN -1 ELSE SetMin(hits)

\* index_of_delim: the last delimiter in (begin_index, end_index], -1 if none
index_of_delim(test, begin_index, end_index) ==
    LET hits == {i \in (begin_index + 1)..end_index :
                   ~isalnum(Ch(test, i)) /\ Ch(test, i) \notin OpenChars}
    IN IF hits = {} THEN -1 ELSE SetMax(hits)

\* Mutant: the lines after the first take one character more
RECURSIVE wrap_loop_wide(_, _, _, _, _, _, _)
wrap_loop_wide(dest, src, lw, prefix, postfix, begin_index, end_index) ==
    LET len_src == Len(src)
        len_extra == Len(prefix) + Len(postfix)
    IN IF begin_index < len_src /\ end_index < len_src
       THEN LET delim_index == index_of_delim(src, begin_index, end_index)
                last == IF delim_index = -1 THEN end_index ELSE delim_index
                line == prefix \o strn(src, begin_index, last - begin_index + 1)
                          \o postfix \o <<NL>>
                next == index_of_char(src, last + 1)
            IN IF next = -1 THEN dest \o line
               ELSE wrap_loop_wide(dest \o line, src, lw, prefix, postfix,
                                   next, next + lw - len_extra)
       ELSE IF begin_index < len_src
            THEN dest \o prefix \o strn(src, begin_index, -1) \o postfix \o <<NL>>
            ELSE dest

\* The while loop of strwrap and the tail after it; dest is the text so far
RECURSIVE wrap_loop(_, _, _, _, _, _, _)
wrap_loop(dest, src, lw, prefix, postfix, begin_index, end_index) ==
    LET len_src == Len(src)
        len_extra == Len(prefix) + Len(postfix)
    IN IF begin_index < len_src /\ end_index < len_src
       THEN LET delim_index == index_of_delim(src, begin_index, end_index)
                last == IF delim_index = -1 THEN end_index ELSE delim_index
                line == prefix \o strn(src, begin_index, last - begin_index + 1)
                          \o postfix \o <<NL>>
                next == index_of_char(src, last + 1)
            IN IF next = -1 THEN dest \o line
               ELSE wrap_loop(dest \o line, src, lw, prefix, postfix,
                              next, next + lw - 1 - len_extra)
       ELSE IF begin_index < len_src
            THEN dest \o prefix \o strn(src, begin_index, -1) \o postfix \o <<NL>>
            ELSE dest

\* One iteration of the while loop of strwrap: the index of the line's last
\* character (the last delimiter of the window, or end_index on a hard
\* wrap) and the begin_index of the next iteration, -1 when only blanks
\* are left
wrap_break(src, begin_index, end_index) ==
    LET delim_index == index_of_delim(src, begin_index, end_index)
    IN IF delim_index = -1 THEN end_index ELSE delim_index

\* Mutant: the search for the next line starts at the break itself
wrap_next_at_break(src, begin_index, end_index) ==
    index_of_char(src, wrap_break(src, begin_index, end_index))

wrap_next(src, begin_index, end_index) ==
    index_of_char(src, wrap_break(src, begin_index, end_index) + 1)

\* The calls of strwrap that stay inside src and return.  With lw equal to
\* the length of the decoration the window is empty and begin_index never
\* moves once a character that is no blank is met; with lw below it
\* end_index + 1 is negative and index_of_char reads before src.
wrap_defined(src, lw, prefix, postfix) ==
    LET len_extra == Len(prefix) + Len(postfix)
    IN \/ lw > len_extra
       \/ src = <<>>
       \/ lw = len_extra /\ index_of_char(src, 0) = -1

\* Mutant: the first line is one character shorter
strwrap_short_first(dest, src, lw, prefix, postfix) ==
    wrap_loop(dest, src, lw, prefix, postfix, 0,
              lw - 2 - (Len(prefix) + Len(postfix)))

strwrap(dest, src, lw, prefix, postfix) ==
    wrap_loop(dest, src, lw, prefix, postfix, 0,
              lw - 1 - (Len(prefix) + Len(postfix)))

\* Mutant: one space less
Spaces_one_less(n) == IF n <= 1 THEN <<>> ELSE [i \in 1..(n - 1) |-> " "]

\* The for loops of strjoin that append n spaces, none when n <= 0
Spaces(n) == IF n <= 0 THEN <<>> ELSE [i \in 1..n |-> " "]

\* The while loop of strjoin and the tail after it
RECURSIVE join_loop(_, _, _, _, _, _)
join_loop(dest, lstr, rstr, indent, lbegin_index, rbegin_index) ==
    IF rbegin_index < Len(rstr)
    THEN LET lnl == index_of_newline(lstr, lbegin_index)
             lend_index == IF lnl = -1 THEN Len(lstr) - 1 ELSE lnl
             left == IF lbegin_index < Len(lstr)
                     THEN strn(lstr, lbegin_index, lend_index - lbegin_index)
                            \o Spaces(indent - (lend_index - lbegin_index))
                     ELSE Spaces(indent)
             lnext == IF lbegin_index < Len(lstr) THEN lend_index + 1
                      ELSE lbegin_index
             rnl == index_of_newline(rstr, rbegin_index)
             rend_index == IF rnl = -1 THEN Len(rstr) - 1 ELSE rnl
         IN join_loop(dest \o left
                        \o strn(rstr, rbegin_index, rend_index - rbegin_index + 1),
                      lstr, rstr, indent, lnext, rend_index + 1)
    ELSE IF lbegin_index < Len(lstr)
         THEN dest \o strn(lstr, lbegin_index, -1)
         ELSE dest

strjoin(dest, lstr, rstr, indent) == join_loop(dest, lstr, rstr, indent, 0, 0)

\* ------------------------------------------------------------------------
\* The help renderer
\* ------------------------------------------------------------------------
\* Mutant: the signature column ignores half the window
line_indent_unbounded(m, width) == m.indent + 4 + 2

\* The indent of format_line: the longest signature with its decoration,
\* at most half the window
line_indent(m, width) ==
    LET bound == width \div 2
        indent == m.indent + 4 + 2
    IN IF bound > indent THEN indent ELSE bound

\* format_line: the option o_ind of group grp_ind, appended to output, for
\* the window width that get_window_width reports
format_line(output, m, grp_ind, o_ind, width) ==
    LET indent == line_indent(m, width)
        g == m.grps[grp_ind + 1]
        lstr == strwrap(<<>>, g.flag_help[o_ind + 1], indent,
                        <<" ", " ", " ", " ">>, <<" ", " ">>)
        rstr == strwrap(<<>>, g.desc_help[o_ind + 1], width - indent, <<>>, <<>>)
    IN strjoin(output, lstr, rstr, indent)

\* Both calls of strwrap in format_line stay inside their strings
line_defined(m, grp_ind, o_ind, width) ==
    LET indent == line_indent(m, width)
        g == m.grps[grp_ind + 1]
    IN /\ wrap_defined(g.flag_help[o_ind + 1], indent,
                       <<" ", " ", " ", " ">>, <<" ", " ">>)
       /\ wrap_defined(g.desc_help[o_ind + 1], width - indent, <<>>, <<>>)

\* Every call of format_line that argparser_help makes is defined
help_defined(m, width) ==
    \A i \in 0..(Len(m.grps) - 1) : \A j \in 0..(Len(m.grps[i + 1].opts) - 1) :
        line_defined(m, i, j, width)

RECURSIVE help_opts(_, _, _, _, _)
help_opts(output, m, i, j, width) ==
    IF j >= Len(m.grps[i + 1].opts) THEN output
    ELSE help_opts(format_line(output, m, i, j, width), m, i, j + 1, width)

\* The loop of argparser_help over the groups
RECURSIVE help_groups(_, _, _, _)
help_groups(output, m, i, width) ==
    IF i >= Len(m.grps) THEN output
    ELSE LET head == output \o <<" ", " ">> \o m.grps[i + 1].name \o <<":", NL>>
         IN help_groups(help_opts(head, m, i, 0, width) \o <<NL>>, m, i + 1, width)

\* argparser_help past its checks: the text it returns
help_text(m, width) == help_groups(<<>>, m, 0, width)

\* The test of argparser_opt_help on one option: id is one character and
\* equals ch_short, or strcmp finds id equal to s_long or to s_keyword
opt_matches(o, id) ==
    \/ (2 = Len(id) + 1 /\ id[1] = o.ch_short)
    \/ id = o.s_long
    \/ id = o.s_keyword

\* The places <<grp_ind, o_ind>> whose option matches id
opt_hits(m, id) ==
    {gj \in UNION {{<<g, j>> : j \in 0..(Len(m.grps[g + 1].opts) - 1)} :
                     g \in 0..(Len(m.grps) - 1)} :
        opt_matches(At(m.opts, m.grps[gj[1] + 1].opts[gj[2] + 1]), id)}

\* The loops of argparser_opt_help stop at the first match: the first group
\* that has one, and in it the first option
opt_first(hits) ==
    LET g == SetMin({gj[1] : gj \in hits})
    IN <<g, SetMin({gj[2] : gj \in {h \in hits : h[1] = g}})>>

\* argparser_opt_help once a match is found: the header of the group and
\* the formatted line of the option
opt_help_text(m, gj, width) ==
    format_line(<<" ", " ">> \o m.grps[gj[1] + 1].name \o <<":", NL>>,
                m, gj[1], gj[2], width)

\* ------------------------------------------------------------------------
\* The heap: the blocks the engine allocates and argparser_clean releases
\* ------------------------------------------------------------------------
\* A block is named by the pointer that holds it: g is the group index and
\* j the index inside the group, -1 where there is none.  realloc keeps the
\* name of the block it resizes.
Block(kind, g, j) == [kind |-> kind, g |-> g, j |-> j]
MemBlock == Block("mem", -1, -1)

\* The blocks group_options allocates for the groups it builds: the group
\* table, and for each group its opts, flag_help and desc_help arrays and
\* the strings format_flag_help and format_desc_help return
GroupBlocks(grps) ==
    IF grps = <<>> THEN {}
    ELSE {Block("grps", -1, -1)}
         \cup UNION {{Block("opts", g, -1), Block("flag_help", g, -1),
                       Block("desc_help", g, -1)} : g \in 0..(Len(grps) - 1)}
         \cup UNION {UNION {{Block("flag_help", g, j), Block("desc_help", g, j)} :
                              j \in 0..(Len(grps[g + 1].opts) - 1)} :
                       g \in 0..(Len(grps) - 1)}

\* The blocks add_to_flags, add_to_bflags and add_to_params allocate
PoolBlocks(m) ==
    (IF m.flags # <<>> THEN {Block("flags", -1, -1)} ELSE {})
    \cup (IF m.bflags # <<>> THEN {Block("bflags", -1, -1)} ELSE {})
    \cup (IF m.params # <<>> THEN {Block("params", -1, -1)} ELSE {})

\* The inner loop of argparser_clean over the strings of group g
RECURSIVE clean_strings(_, _, _)
clean_strings(grp, g, j) ==
    IF j >= Len(grp.opts) THEN <<>>
    ELSE <<Block("flag_help", g, j), Block("desc_help", g, j)>>
           \o clean_strings(grp, g, j + 1)

\* Mutant: the strings of a group are not released
clean_group_arrays_only(grp, g) ==
    IF grp.opts # <<>>
    THEN <<Block("opts", g, -1), Block("flag_help", g, -1), Block("desc_help", g, -1)>>
    ELSE <<>>

\* The body of the loop of argparser_clean for group g
clean_group(grp, g) ==
    IF grp.opts # <<>>
    THEN <<Block("opts", g, -1)>> \o clean_strings(grp, g, 0)
           \o <<Block("flag_help", g, -1), Block("desc_help", g, -1)>>
    ELSE <<>>

RECURSIVE clean_groups(_, _)
clean_groups(grps, g) ==
    IF g >= Len(grps) THEN <<>>
    ELSE clean_group(grps[g + 1], g) \o clean_groups(grps, g + 1)

\* argparser_clean: the calls of free it makes, in order
clean_frees(m) ==
    IF m.null THEN <<>>
    ELSE (IF m.grps # <<>>
          THEN clean_groups(m.grps, 0) \o <<Block("grps", -1, -1)>> ELSE <<>>)
         \o (IF m.flags # <<>> THEN <<Block("flags", -1, -1)>> ELSE <<>>)
         \o (IF m.bflags # <<>> THEN <<Block("bflags", -1, -1)>> ELSE <<>>)
         \o (IF m.params # <<>> THEN <<Block("params", -1, -1)>> ELSE <<>>)
         \o <<MemBlock>>

\* ------------------------------------------------------------------------
\* Inputs of the model
\* ------------------------------------------------------------------------
Hint == <<"<", "h", ">">>
Desc == <<"d">>

\* A pool of well-formed descriptors; some pairs share an identifier
DescA == Opt(TRUE, "a", <<"a", "b">>, <<"k", "a">>, <<>>, Desc, <<"A">>)
DescB == Opt(FALSE, "b", <<"b", "b">>, <<"b">>, Hint, Desc, <<"B">>)
DescC == Opt(TRUE, "b", <<>>, <<"k", "c">>, <<>>, Desc, <<>>)
DescD == Opt(FALSE, Nul, <<"a", "b">>, <<"b">>, Hint, Desc, <<"A">>)
DescPool == {DescA, DescB, DescC, DescD}

SeqsUpTo(S, n) == UNION {[1..k -> S] : k \in 0..n}

\* The tables a caller declares: descriptors of the pool, then the end mark
Tables == {Append(t, O_END) : t \in SeqsUpTo(DescPool, MaxOpts)}

\* Tables of boolean options with distinct short identifiers, one per label
ShortOf(i) == <<"a", "b", "c", "d", "e", "f", "g", "h">>[i]
Labels == {<<"A">>, <<"B">>, <<"C">>, <<>>}
LabelTable(ls) ==
    Append([i \in 1..Len(ls) |->
               Opt(TRUE, ShortOf(i), <<>>, <<>>, <<>>, Desc, ls[i])], O_END)
GroupTables == {LabelTable(ls) : ls \in SeqsUpTo(Labels, MaxLabels)}

ProgName == <<"p">>
Tokens == {<<"-">>, <<"-", "-">>, <<"-", "a">>, <<"-", "a", "b">>,
           <<"-", "b", "a">>, <<"-", "a", "x">>, <<"-", "-", "a", "b">>,
           <<"-", "-", "b", "b">>, <<"-", "-", "x">>, <<"k", "a">>, <<"b">>,
           <<"x">>, <<"x", "y">>, <<>>}
FewTokens == {<<"-">>, <<"-", "a">>, <<"-", "-", "a", "b">>, <<"b">>,
              <<"x", "y">>}
ArgvsOf(T) == {<<ProgName>> \o a : a \in SeqsUpTo(T, MaxArgs)}

\* Argument vectors whose token 0 reads like an option, a keyword or a
\* parameter, and the vector of argc = 0
ProgNames == {ProgName, <<"-", "a">>, <<"k", "a">>, <<"x">>}
ProgArgvs == {<<>>} \cup {<<p>> \o a : p \in ProgNames, a \in SeqsUpTo(FewTokens, MaxArgs)}

\* Descriptors for the validation of argparser_setup: a long field of one
\* blank, a long field of MAX_STRLEN characters, and descriptors with no
\* identifier, a character that is no letter or digit, a missing hint, a
\* hint on a boolean option and a blank description
MAX_STRLEN == 20
DescBlankLong == Opt(TRUE, "c", <<" ">>, <<>>, <<>>, Desc, <<>>)
DescLongName == Opt(TRUE, "d", [i \in 1..MAX_STRLEN |-> "n"], <<>>, <<>>, Desc, <<>>)
DescNoId == Opt(TRUE, Nul, <<>>, <<>>, <<>>, Desc, <<>>)
DescBadShort == Opt(TRUE, "-", <<>>, <<>>, <<>>, Desc, <<>>)
DescBadLong == Opt(TRUE, "e", <<"a", "-">>, <<>>, <<>>, Desc, <<>>)
DescBadKeyword == Opt(TRUE, "f", <<>>, <<"k", " ">>, <<>>, Desc, <<>>)
DescNoHint == Opt(FALSE, "g", <<>>, <<>>, <<>>, Desc, <<>>)
DescBoolHint == Opt(TRUE, "h", <<>>, <<>>, Hint, Desc, <<>>)
DescNoDesc == Opt(TRUE, "i", <<>>, <<>>, <<>>, <<" ">>, <<>>)
SetupPool == DescPool \cup {DescBlankLong, DescLongName, DescNoId, DescBadShort,
                            DescBadLong, DescBadKeyword, DescNoHint,
                            DescBoolHint, DescNoDesc}
SetupTables == {Append(t, O_END) : t \in SeqsUpTo(SetupPool, MaxOpts)}

\* Tables for the help renderer: one description is longer than the
\* description column of the narrow windows
DescLong == Opt(FALSE, "c", <<"c", "d">>, <<>>, Hint,
                <<"d", "d", "d", "d", "d", "d", "d", " ", "d", "d", "-", "d">>, <<>>)
HelpPool == {DescA, DescB, DescLong}
HelpTables == {Append(t, O_END) : t \in SeqsUpTo(HelpPool, MaxOpts)}

\* The identifiers a caller asks argparser_opt_help about
Ids == {<<"a">>, <<"b">>, <<"a", "b">>, <<"k", "a">>, <<"z">>, <<" ">>, <<>>}

\* The arguments of strwrap: texts of letters, blanks, a delimiter and an
\* open character, and a width above the length of the decoration
WrapChars == {"a", " ", "-", "<"}
WrapIn(src, lw, prefix, postfix) ==
    [op |-> "wrap", src |-> src, lw |-> lw, prefix |-> prefix,
     postfix |-> postfix, lstr |-> <<>>, rstr |-> <<>>, indent |-> 0]
WrapInputs ==
    {w \in {WrapIn(src, lw, prefix, postfix) :
               src \in SeqsUpTo(WrapChars, MaxText), lw \in 1..(MaxText + 3),
               prefix \in {<<>>, <<">">>}, postfix \in {<<>>, <<"|">>}} :
        w.lw > Len(w.prefix) + Len(w.postfix)}

\* The arguments of strjoin: lines of l on the left and of r on the right
JoinIn(lstr, rstr, indent) ==
    [op |-> "join", src |-> <<>>, lw |-> 0, prefix |-> <<>>,
     postfix |-> <<>>, lstr |-> lstr, rstr |-> rstr, indent |-> indent]
JoinInputs ==
    {JoinIn(lstr, rstr, indent) :
        lstr \in SeqsUpTo({"l", NL}, MaxLine),
        rstr \in SeqsUpTo({"r", NL}, MaxLine), indent \in 0..MaxIndent}

Versions == {<<"v", "1">>, <<>>, <<" ">>}
\* What get_window_width reports: the columns of the terminal, 0 when
\* standard output is no terminal
Widths == {0, 1, 12, 13, 14, 20}
\* What a caller passes as the array argument of an accessor: NULL (empty)
\* or a buffer of its own
CallerInts == {<<>>, <<-1>>}
CallerStrs == {<<>>, <<<<>>>>}

\* ------------------------------------------------------------------------
\* The state machine
\* ------------------------------------------------------------------------
\* id is the argument of argparser_opt_help and null says it returned NULL
\* width is what get_window_width reported to format_line, -1 before
NoRet == [op |-> "none", size |-> 0, arr |-> <<>>, text |-> <<>>,
          id |-> <<>>, null |-> FALSE, width |-> -1]
Ret(op, size, arr, text) == [NoRet EXCEPT !.op = op, !.size = size,
                                          !.arr = arr, !.text = text]
RetOpt(id, null, text) == [NoRet EXCEPT !.op = "opt_help", !.id = id,
                                        !.null = null, !.text = text]

\* A call of format_line outside the bounds of strwrap: the process crashes,
\* does not return, or returns with a text that is left open
Undefined == {"crash", "hang", "undefined"}
RetUndefined(width) == [NoRet EXCEPT !.op = "undefined", !.width = width]
UndefinedCall(out, width) ==
    /\ ret' = RetUndefined(width)
    /\ status' = IF out = "undefined" THEN status ELSE out
    /\ UNCHANGED err

NoArgs == [opts_null |-> FALSE, ver_null |-> FALSE, version |-> <<>>]
NoLayout == [op |-> "none", src |-> <<>>, lw |-> 0, prefix |-> <<>>,
             postfix |-> <<>>, lstr |-> <<>>, rstr |-> <<>>, indent |-> 0]
\* pc, begin_index, end_index and lines are the position of a call of
\* strwrap that is followed iteration by iteration
NoOut == [done |-> FALSE, text |-> <<>>, pc |-> "start", begin_index |-> 0,
          end_index |-> 0, lines |-> 0]

InitWith(tables, argvs) ==
    /\ options \in tables
    /\ argv \in argvs
    /\ status = "run"
    /\ err = NoErr
    /\ mem = NullMem
    /\ setup_called = 0
    /\ parse_called = 0
    /\ group_called = 0
    /\ ret = NoRet
    /\ parse_calls = 0
    /\ parse_returns = 0
    /\ setup_calls = 0
    /\ setup_args = NoArgs
    /\ allocated = {}
    /\ freed = <<>>
    /\ clean_calls = 0
    /\ layout_in = NoLayout
    /\ layout_out = NoOut

Init == InitWith(Tables, ArgvsOf(FewTokens))
InitParse == InitWith(Tables, ArgvsOf(Tokens))
InitGroups == InitWith(GroupTables, {<<ProgName>>})
InitSetup == InitWith(SetupTables, {<<ProgName>>})
InitClean == InitWith(Tables, ArgvsOf(FewTokens))
InitProg == InitWith(Tables, ProgArgvs)
InitHelp == InitWith(HelpTables, {<<ProgName>>})
InitPublic == InitWith(Tables, ArgvsOf({<<"-", "a">>}))

\* The text-layout functions are pure: the state is the call's arguments
InitLayout ==
    /\ options = <<O_END>>
    /\ argv = <<ProgName>>
    /\ status = "run"
    /\ err = NoErr
    /\ mem = NullMem
    /\ setup_called = 0
    /\ parse_called = 0
    /\ group_called = 0
    /\ ret = NoRet
    /\ parse_calls = 0
    /\ parse_returns = 0
    /\ setup_calls = 0
    /\ setup_args = NoArgs
    /\ allocated = {}
    /\ freed = <<>>
    /\ clean_calls = 0
    /\ layout_in \in WrapInputs \cup JoinInputs
    /\ layout_out = NoOut

InitWrapLoop ==
    /\ InitLayout
    /\ layout_in.op = "wrap"

\* argparser_error: the message is printed and the process exits
Exit(e) ==
    /\ status' = "exit"
    /\ err' = e

\* argparser_setup past the allocation of mem; the first failing check decides
setup_error(opts_null, ver_null, version) ==
    IF opts_null THEN Error("The input options is NULL", <<>>, -1)
    ELSE IF ver_null THEN Error("The input version is NULL", <<>>, -1)
    ELSE IF ~has_text(version) THEN Error("Version cannot be empty string.", <<>>, -1)
    ELSE LET size_opts == ScanSize(options, 0)
             bad == {i \in 0..(size_opts - 1) : ~is_valid_option(At(options, i))}
         IN IF bad # {}
            THEN Error("Options validation fails due to invalid format", <<>>, SetMin(bad))
            ELSE IF has_duplicated_ids(options, size_opts)
            THEN Error("Options validation fails due to duplicated identifiers", <<>>, -1)
            ELSE IF group_called # 0
            THEN Error("group_options() should not be called twice", <<>>, -1)
            ELSE IF group_options(options, size_opts) = <<>>
            THEN Error("Incorrect argparser grouped", <<>>, -1)
            ELSE NoErr

\* Mutant: the static counter of argparser_setup is not looked at
setup_called_twice_never(called) == FALSE

\* The first test of argparser_setup on its static counter
setup_called_twice(called) == 0 # called

\* What argparser_setup reads of its arguments: options, then version if
\* options is not NULL, then the text of version if version is not NULL
looked_at(opts_null, ver_null, version) ==
    IF opts_null THEN [NoArgs EXCEPT !.opts_null = TRUE]
    ELSE IF ver_null THEN [NoArgs EXCEPT !.ver_null = TRUE]
    ELSE [NoArgs EXCEPT !.version = version]

Setup ==
    /\ status = "run"
    /\ \E opts_null \in BOOLEAN, ver_null \in BOOLEAN, version \in Versions :
         IF setup_called_twice(setup_called)
         THEN /\ Exit(Error("argparser_setup() should not be called twice", <<>>, -1))
              /\ UNCHANGED <<mem, setup_called, group_called, ret, allocated,
                             setup_args>>
         ELSE LET e == setup_error(opts_null, ver_null, version)
                  size_opts == ScanSize(options, 0)
                  grps == group_options(options, size_opts)
              IN /\ setup_args' = looked_at(opts_null, ver_null, version)
                 /\ IF e # NoErr
                    THEN /\ Exit(e)
                         /\ mem' = ZeroMem
                         /\ allocated' = {MemBlock}
                         /\ UNCHANGED <<setup_called, group_called, ret>>
                    ELSE /\ mem' = [ZeroMem EXCEPT !.grps = grps,
                                                   !.indent = calc_indent(grps),
                                                   !.opts = options,
                                                   !.size_opts = size_opts,
                                                   !.version = version]
                         /\ allocated' = {MemBlock} \cup GroupBlocks(grps)
                         /\ setup_called' = setup_called + 1
                         /\ group_called' = group_called + 1
                         /\ ret' = Ret("setup", 0, <<>>, <<>>)
                         /\ UNCHANGED <<status, err>>
    /\ setup_calls' = setup_calls + 1
    /\ UNCHANGED <<options, argv, parse_called, parse_calls, parse_returns,
                   freed, clean_calls>>
    /\ UNCHANGED layoutVars

Parse ==
    /\ status = "run"
    /\ freed = <<>>
    /\ parse_calls < MaxParseCalls
    /\ parse_calls' = parse_calls + 1
    /\ IF parse_called # 0
       THEN /\ Exit(Error("argparser_parse() should not be called twice", <<>>, -1))
            /\ UNCHANGED <<mem, ret, parse_returns, allocated>>
       ELSE IF mem.null
       THEN /\ Exit(Error("Incorrect argparser sertup", <<>>, -1))
            /\ UNCHANGED <<mem, ret, parse_returns, allocated>>
       ELSE LET s == parse_args(mem, Len(argv), argv)
            IN /\ mem' = s.m
               /\ allocated' = allocated \cup PoolBlocks(s.m)
               /\ IF s.err # NoErr
                  THEN /\ Exit(s.err)
                       /\ UNCHANGED <<ret, parse_returns>>
                  ELSE /\ ret' = Ret("parse", 0, <<>>, <<>>)
                       /\ parse_returns' = parse_returns + 1
                       /\ UNCHANGED <<status, err>>
    /\ UNCHANGED <<options, argv, setup_called, parse_called, group_called,
                   freed, clean_calls>>
    /\ UNCHANGED <<setupHist, layoutVars>>

\* An accessor: *size is set; arr is the accessor's own copy of the caller's
\* pointer, so what the caller holds in its array argument stays arr_in
Accessor(op, size, arr_in) ==
    /\ status = "run"
    /\ freed = <<>>
    /\ IF mem.null
       THEN /\ Exit(Error("Incorrect argparser sertup", <<>>, -1))
            /\ UNCHANGED ret
       ELSE /\ ret' = Ret(op, size, arr_in, <<>>)
            /\ UNCHANGED <<status, err>>
    /\ UNCHANGED <<options, argv, mem, setup_called, parse_called,
                   group_called, parse_calls, parse_returns>>
    /\ UNCHANGED <<setupHist, heapVars, layoutVars>>

Flags == \E arr_in \in CallerInts : Accessor("flags", Len(mem.flags), arr_in)
BFlags == \E arr_in \in CallerInts : Accessor("bflags", Len(mem.bflags), arr_in)
Params == \E arr_in \in CallerStrs : Accessor("params", Len(mem.params), arr_in)

Help ==
    /\ status = "run"
    /\ freed = <<>>
    /\ \E width \in Widths :
         IF mem.null
         THEN /\ Exit(Error("Incorrect argparser setup", <<>>, -1))
              /\ UNCHANGED ret
         ELSE IF mem.grps = <<>>
         THEN /\ Exit(Error("Incorrect argparser grouping", <<>>, -1))
              /\ UNCHANGED ret
         ELSE IF ~help_defined(mem, width)
         THEN \E out \in Undefined : UndefinedCall(out, width)
         ELSE /\ ret' = [Ret("help", 0, <<>>, help_text(mem, width))
                            EXCEPT !.width = width]
              /\ UNCHANGED <<status, err>>
    /\ UNCHANGED <<options, argv, mem, setup_called, parse_called,
                   group_called, parse_calls, parse_returns>>
    /\ UNCHANGED <<setupHist, heapVars, layoutVars>>

\* argparser_opt_help: NULL when no option matches id
OptHelp ==
    /\ status = "run"
    /\ freed = <<>>
    /\ \E id \in Ids, width \in Widths :
         IF mem.null
         THEN /\ Exit(Error("Incorrect argparser setup", <<>>, -1))
              /\ UNCHANGED ret
         ELSE IF mem.grps = <<>>
         THEN /\ Exit(Error("Incorrect argparser grouping", <<>>, -1))
              /\ UNCHANGED ret
         ELSE IF opt_hits(mem, id) = {}
         THEN /\ ret' = RetOpt(id, TRUE, <<>>)
              /\ UNCHANGED <<status, err>>
         ELSE LET gj == opt_first(opt_hits(mem, id))
              IN IF ~line_defined(mem, gj[1], gj[2], width)
                 THEN \E out \in Undefined : UndefinedCall(out, width)
                 ELSE /\ ret' = [RetOpt(id, FALSE, opt_help_text(mem, gj, width))
                                    EXCEPT !.width = width]
                      /\ UNCHANGED <<status, err>>
    /\ UNCHANGED <<options, argv, mem, setup_called, parse_called,
                   group_called, parse_calls, parse_returns>>
    /\ UNCHANGED <<setupHist, heapVars, layoutVars>>

\* argparser_version: return mem->version, with no test of mem.  With mem
\* NULL the read is outside any object: the process crashes, or the call
\* returns a pointer that is left open
Version ==
    /\ status = "run"
    /\ freed = <<>>
    /\ IF mem.null
       THEN \E out \in {"crash", "undefined"} :
              /\ ret' = Ret("version", 0, <<>>, <<>>)
              /\ status' = IF out = "undefined" THEN status ELSE out
       ELSE /\ ret' = Ret("version", 0, <<>>, mem.version)
            /\ UNCHANGED status
    /\ UNCHANGED <<options, argv, err, mem, setup_called, parse_called,
                   group_called, parse_calls, parse_returns>>
    /\ UNCHANGED <<setupHist, heapVars, layoutVars>>

\* argparser_clean: every block the registry points to is passed to free;
\* mem itself is not reset.  A further call reads the released registry:
\* it either finds the stale pointers and frees them again, or the process
\* crashes.  The caller makes no other call that reads the registry once
\* it is released (freed # <<>>).
Clean ==
    /\ status = "run"
    /\ clean_calls < MaxCleanCalls
    /\ clean_calls' = clean_calls + 1
    /\ IF mem.null \/ freed = <<>>
       THEN /\ freed' = freed \o clean_frees(mem)
            /\ UNCHANGED status
       ELSE \E stale \in BOOLEAN :
              IF stale
              THEN /\ freed' = freed \o clean_frees(mem)
                   /\ UNCHANGED status
              ELSE /\ status' = "crash"
                   /\ UNCHANGED freed
    /\ ret' = Ret("clean", 0, <<>>, <<>>)
    /\ UNCHANGED <<options, argv, err, mem, setup_called, parse_called,
                   group_called, parse_calls, parse_returns, allocated>>
    /\ UNCHANGED <<setupHist, layoutVars>>

\* A call of strwrap with an empty dest
Wrap ==
    /\ layout_in.op = "wrap"
    /\ ~layout_out.done
    /\ layout_out' = [NoOut EXCEPT !.done = TRUE,
                                   !.text = strwrap(<<>>, layout_in.src, layout_in.lw,
                                                    layout_in.prefix, layout_in.postfix)]
    /\ UNCHANGED <<options, argv, status, err, mem, setup_called, parse_called,
                   group_called, ret, parse_calls, parse_returns, layout_in>>
    /\ UNCHANGED <<setupHist, heapVars>>

\* strwrap followed step by step.  Entry: the lengths of the decoration
\* and the first window
WrapEnter ==
    /\ layout_in.op = "wrap"
    /\ layout_out.pc = "start"
    /\ layout_out' = [layout_out EXCEPT
                          !.pc = "loop",
                          !.begin_index = 0,
                          !.end_index = layout_in.lw - 1
                                          - (Len(layout_in.prefix) + Len(layout_in.postfix))]
    /\ UNCHANGED <<options, argv, status, err, mem, setup_called, parse_called,
                   group_called, ret, parse_calls, parse_returns, layout_in>>
    /\ UNCHANGED <<setupHist, heapVars>>

\* One iteration of the while loop: a line is appended and the window moves;
\* the call returns when only blanks are left
WrapIter ==
    /\ layout_out.pc = "loop"
    /\ layout_out.begin_index < Len(layout_in.src)
    /\ layout_out.end_index < Len(layout_in.src)
    /\ LET src == layout_in.src
           begin_index == layout_out.begin_index
           end_index == layout_out.end_index
           last == wrap_break(src, begin_index, end_index)
           next == wrap_next(src, begin_index, end_index)
           line == layout_in.prefix \o strn(src, begin_index, last - begin_index + 1)
                     \o layout_in.postfix \o <<NL>>
       IN layout_out' =
            [layout_out EXCEPT
                !.text = @ \o line,
                !.lines = @ + 1,
                !.begin_index = next,
                !.end_index = IF next = -1 THEN @
                              ELSE next + layout_in.lw - 1
                                     - (Len(layout_in.prefix) + Len(layout_in.postfix)),
                !.pc = IF next = -1 THEN "done" ELSE "loop",
                !.done = next = -1]
    /\ UNCHANGED <<options, argv, status, err, mem, setup_called, parse_called,
                   group_called, ret, parse_calls, parse_returns, layout_in>>
    /\ UNCHANGED <<setupHist, heapVars>>

\* The loop is left: what remains of src is the last line
WrapTail ==
    /\ layout_out.pc = "loop"
    /\ ~(/\ layout_out.begin_index < Len(layout_in.src)
         /\ layout_out.end_index < Len(layout_in.src))
    /\ LET more == layout_out.begin_index < Len(layout_in.src)
           line == layout_in.prefix \o strn(layout_in.src, layout_out.begin_index, -1)
                     \o layout_in.postfix \o <<NL>>
       IN layout_out' = [layout_out EXCEPT
                            !.text = IF more THEN @ \o line ELSE @,
                            !.lines = IF more THEN @ + 1 ELSE @,
                            !.pc = "done",
                            !.done = TRUE]
    /\ UNCHANGED <<options, argv, status, err, mem, setup_called, parse_called,
                   group_called, ret, parse_calls, parse_returns, layout_in>>
    /\ UNCHANGED <<setupHist, heapVars>>

\* A call of strjoin with an empty dest
Join ==
    /\ layout_in.op = "join"
    /\ ~layout_out.done
    /\ layout_out' = [NoOut EXCEPT !.done = TRUE,
                                   !.text = strjoin(<<>>, layout_in.lstr, layout_in.rstr,
                                                    layout_in.indent)]
    /\ UNCHANGED <<options, argv, status, err, mem, setup_called, parse_called,
                   group_called, ret, parse_calls, parse_returns, layout_in>>
    /\ UNCHANGED <<setupHist, heapVars>>

Next == Setup \/ Parse \/ Flags \/ BFlags \/ Params \/ Help
NextParse == Setup \/ Parse
NextGroups == Setup \/ Help
NextSetup == Setup \/ OptHelp
NextClean == Setup \/ Parse \/ Clean
NextLayout == Wrap \/ Join
NextProg == Setup \/ Parse
NextHelp == Setup \/ Help \/ OptHelp
NextPublic ==
    Setup \/ Parse \/ Flags \/ BFlags \/ Params \/ Help \/ OptHelp \/ Version
NextWrapLoop == WrapEnter \/ WrapIter \/ WrapTail

Spec == Init /\ [][Next]_vars
SpecParse == InitParse /\ [][NextParse]_vars
SpecGroups == InitGroups /\ [][NextGroups]_vars
SpecSetup == InitSetup /\ [][NextSetup]_vars
SpecClean == InitClean /\ [][NextClean]_vars
SpecLayout == InitLayout /\ [][NextLayout]_vars
SpecProg == InitProg /\ [][NextProg]_vars
SpecHelp == InitHelp /\ [][NextHelp]_vars
SpecPublic == InitPublic /\ [][NextPublic]_vars
\* A call of strwrap is not suspended: its next step is always taken
SpecWrapLoop == InitWrapLoop /\ [][NextWrapLoop]_vars /\ WF_vars(NextWrapLoop)

\* ========================================================================
\* Properties
\* ========================================================================
\* The sequence without its repeated elements, first occurrences kept
RECURSIVE FirstSeen(_)
FirstSeen(seq) ==
    IF seq = <<>> THEN <<>>
    ELSE LET front == FirstSeen(SubSeq(seq, 1, Len(seq) - 1))
             last == seq[Len(seq)]
         IN IF \E k \in 1..Len(front) : front[k] = last THEN front
            ELSE Append(front, last)

NoRepeat(seq) == \A i, j \in 1..Len(seq) : i # j => seq[i] # seq[j]

\* The descriptors the caller declared before the sentinel
Declared == SubSeq(options, 1, ScanSize(options, 0))

\* The lines of a text, without their line breaks
RECURSIVE SplitLines(_)
SplitLines(text) ==
    IF text = <<>> THEN <<>>
    ELSE LET nl == index_of_newline(text, 0)
         IN IF nl = -1 THEN <<text>>
            ELSE <<SubSeq(text, 1, nl)>> \o SplitLines(SubSeq(text, nl + 2, Len(text)))

\* A group header is a line "  <label>:"; option lines start with four
\* spaces or more
IsHeader(line) ==
    /\ Len(line) >= 4
    /\ line[1] = " " /\ line[2] = " " /\ line[3] # " "
    /\ line[Len(line)] = ":"
Headers(text) ==
    LET hs == SelectSeq(SplitLines(text), IsHeader)
    IN [k \in 1..Len(hs) |-> SubSeq(hs[k], 3, Len(hs[k]) - 1)]

\* The label a descriptor is grouped under: a blank label is "Options"
LabelOf(o) == IF has_text(o.s_group) THEN o.s_group ELSE DefaultGroup
DeclaredLabels == [i \in 1..Len(Declared) |-> LabelOf(Declared[i])]
GroupNames == [i \in 1..Len(mem.grps) |-> mem.grps[i].name]

\* C1 (as claimed): classify is single-shot.  Once a call of argparser_parse
\* has returned, every further call ends in a fatal error and leaves
\* value_flags, bool_flags and positionals as the first call left them.
C1_SingleShot ==
    [][(parse_returns >= 1 /\ parse_calls' > parse_calls)
         => /\ status' = "exit"
            /\ mem'.flags = mem.flags
            /\ mem'.bflags = mem.bflags
            /\ mem'.params = mem.params]_vars

\* C2 (as claimed): after a successful classify each accessor hands its
\* caller the size and, through the array argument, the recorded sequence
\* in recording order.
Delivered(size, arr, seq) ==
    /\ size = Len(seq)
    /\ Len(arr) >= size
    /\ SubSeq(arr, 1, size) = seq
C2_AccessorsDeliver ==
    parse_returns >= 1 =>
        /\ ret.op = "flags" => Delivered(ret.size, ret.arr, mem.flags)
        /\ ret.op = "bflags" => Delivered(ret.size, ret.arr, mem.bflags)
        /\ ret.op = "params" => Delivered(ret.size, ret.arr, mem.params)

\* C3 (as claimed): the groups of a validated table are its distinct labels
\* in order of first appearance, and argparser_help prints each label's
\* header exactly once, in that order.
C3_GroupOrder ==
    setup_called = 1 =>
        /\ GroupNames = FirstSeen(DeclaredLabels)
        /\ ret.op = "help" => Headers(ret.text) = FirstSeen(DeclaredLabels)

\* ------------------------------------------------------------------------
\* The classification of section 4.3, token by token
\* ------------------------------------------------------------------------
\* The tokens after the program name
Args == Tail(argv)
Range(seq) == {seq[k] : k \in 1..Len(seq)}
Idx == 0..(Len(Declared) - 1)

IsBare(t) == t = <<"-">> \/ t = <<"-", "-">>
IsLongTok(t) == Len(t) >= 3 /\ t[1] = "-" /\ t[2] = "-"
IsClusterTok(t) == Len(t) >= 2 /\ t[1] = "-" /\ t[2] # "-"
IsPlainTok(t) == Len(t) >= 1 /\ t[1] # "-"

LongIdx(t) == {j \in Idx : Declared[j + 1].s_long = SubSeq(t, 3, Len(t))}
ShortIdx(c) == {j \in Idx : Declared[j + 1].ch_short = c}
KeywordIdx(t) == {j \in Idx : Declared[j + 1].s_keyword = t}

\* A token that ends the classification with a usage error
Fatal(t) ==
    \/ IsBare(t)
    \/ IsLongTok(t) /\ LongIdx(t) = {}
    \/ IsClusterTok(t) /\ \E q \in 2..Len(t) : ShortIdx(t[q]) = {}
FatalAt == {k \in 1..Len(Args) : Fatal(Args[k])}
FirstFatal == IF FatalAt = {} THEN 0 ELSE SetMin(FatalAt)

\* A token that the classifier resolves to no option: it starts with no
\* dash and no keyword lookup matches it.  The classifier looks up tokens
\* of two characters or more only, so a token of one character (and the
\* empty token) resolves to no option.
NoOption(t) == (t = <<>> \/ t[1] # "-") /\ (Len(t) < 2 \/ KeywordIdx(t) = {})

\* The options that the tokens of a sequence name
NamedByTok(t) ==
    IF IsLongTok(t) THEN LongIdx(t)
    ELSE IF IsClusterTok(t) THEN UNION {ShortIdx(t[q]) : q \in 2..Len(t)}
    ELSE IF Len(t) >= 2 THEN KeywordIdx(t)
    ELSE {}
NamedBy(toks) == UNION {NamedByTok(toks[k]) : k \in 1..Len(toks)}

IsParseError == err.msg \in {"Unknown flag", "Invalid argument, -", "Invalid argument, --"}

\* Exactly the tokens before Args[k] have been classified
StoppedBefore(k) ==
    /\ status = "exit"
    /\ parse_returns = 0
    /\ mem.params = SelectSeq(SubSeq(Args, 1, k - 1), NoOption)
    /\ Range(mem.flags) \cup Range(mem.bflags) = NamedBy(SubSeq(Args, 1, k - 1))

C5_KeywordLookup ==
    parse_returns = 1 =>
        \A k \in 1..Len(Args) :
            IsPlainTok(Args[k]) =>
                IF KeywordIdx(Args[k]) # {}
                THEN /\ KeywordIdx(Args[k]) \subseteq Range(mem.flags) \cup Range(mem.bflags)
                     /\ Args[k] \notin Range(mem.params)
                ELSE Args[k] \in Range(mem.params)

RECURSIVE ClusterHits(_)
ClusterHits(toks) ==
    IF toks = <<>> THEN <<>>
    ELSE LET t == toks[1]
         IN [q \in 1..(Len(t) - 1) |-> CHOOSE j \in ShortIdx(t[q + 1]) : TRUE]
              \o ClusterHits(Tail(toks))

\* C7: when the tokens are clusters "-abc", every character after the dash
\* is resolved against the short fields on its own, and the options are
\* recorded in reading order, booleans in bool_flags and the others in
\* value_flags.
C7_Clustering ==
    (parse_returns >= 1 /\ Args # <<>> /\ \A k \in 1..Len(Args) : IsClusterTok(Args[k])) =>
        LET hits == ClusterHits(Args)
            IsBool(j) == Declared[j + 1].b
            IsValue(j) == ~Declared[j + 1].b
        IN /\ \A k \in 1..Len(Args) : \A q \in 2..Len(Args[k]) :
                  ShortIdx(Args[k][q]) # {}
           /\ mem.bflags = FirstSeen(SelectSeq(hits, IsBool))
           /\ mem.flags = FirstSeen(SelectSeq(hits, IsValue))

\* C7 witness: "-ab" with boolean shorts a and b gives both, in that order
C7_Witness ==
    /\ parse_returns >= 1
    /\ Args = <<<<"-", "a", "b">>>>
    /\ Declared = <<DescA, DescC>>
    /\ mem.bflags = <<0, 1>>

\* C8: a token --name whose name is no descriptor's long field ends the
\* classification in a fatal "unknown flag" error that names the token;
\* nothing after it is classified.
C8_UnknownLong ==
    (setup_called = 1 /\ parse_calls >= 1 /\ FirstFatal # 0
       /\ IsLongTok(Args[FirstFatal])) =>
        /\ err = Error("Unknown flag", Args[FirstFatal], -1)
        /\ StoppedBefore(FirstFatal)

\* C8 witness: an unknown --x followed by a further token
C8_Witness ==
    /\ setup_called = 1
    /\ err = Error("Unknown flag", <<"-", "-", "x">>, -1)
    /\ Len(Args) = 2
    /\ FirstFatal = 1

\* C9: a token "-" or "--" ends the classification in a fatal "invalid
\* argument" error; it is never a positional and never recorded as a flag,
\* at whatever place after the program name it stands.
C9_BareDash ==
    /\ \A k \in 1..Len(mem.params) : ~IsBare(mem.params[k])
    /\ (setup_called = 1 /\ parse_calls >= 1 /\ FirstFatal # 0
          /\ IsBare(Args[FirstFatal])) =>
           /\ err.msg = (IF Args[FirstFatal] = <<"-">> THEN "Invalid argument, -"
                         ELSE "Invalid argument, --")
           /\ StoppedBefore(FirstFatal)

\* C9 witness: "-" as the second token, after a positional
C9_Witness ==
    /\ err.msg = "Invalid argument, -"
    /\ Len(Args) = 2 /\ Args[2] = <<"-">>
    /\ mem.params = <<Args[1]>>

\* Two declared descriptors share a non-empty short, long or keyword
SharesId ==
    \E i, j \in 1..Len(Declared) :
        /\ i # j
        /\ \/ Declared[i].ch_short # Nul /\ Declared[i].ch_short = Declared[j].ch_short
           \/ Declared[i].s_long # <<>> /\ Declared[i].s_long = Declared[j].s_long
           \/ Declared[i].s_keyword # <<>> /\ Declared[i].s_keyword = Declared[j].s_keyword

\* C10: for a table in which two descriptors share an identifier, setup
\* never succeeds (a call of it ends in a fatal error) and nothing is ever
\* classified.
C10_DuplicateIds ==
    SharesId =>
        /\ setup_called = 0
        /\ parse_returns = 0
        /\ mem.null \/ (status = "exit" /\ mem = ZeroMem)

\* C10 witness: setup has rejected such a table for its duplicates
C10_Witness ==
    /\ SharesId
    /\ status = "exit"
    /\ err.msg = "Options validation fails due to duplicated identifiers"

\* ------------------------------------------------------------------------
\* The registry: validation and single-shot setup
\* ------------------------------------------------------------------------
AllAlnum(str) == \A k \in 1..Len(str) : str[k] \in Alnum
Blank(str) == \A k \in 1..Len(str) : str[k] = " "

\* A well-formed descriptor as section 4.2 has it: an identifier field is
\* present when it is not empty
WellFormed(o) ==
    /\ o.ch_short # Nul \/ o.s_long # <<>> \/ o.s_keyword # <<>>
    /\ o.ch_short # Nul => o.ch_short \in Alnum
    /\ o.s_long # <<>> => AllAlnum(o.s_long) /\ Len(o.s_long) <= MAX_STRLEN - 1
    /\ o.s_keyword # <<>> => AllAlnum(o.s_keyword) /\ Len(o.s_keyword) <= MAX_STRLEN - 1
    /\ ~Blank(o.s_hint) <=> ~o.b
    /\ ~Blank(o.s_desc)

\* C11 (as claimed): setup succeeds only if every descriptor before the
\* sentinel is well-formed: it has an identifier, every identifier field
\* that is not empty is alphanumeric and within the maximum length, the
\* hint is present exactly when the option is non-boolean and the
\* description is not blank.
C11_WellFormedTables ==
    setup_called = 1 => \A i \in 1..Len(Declared) : WellFormed(Declared[i])

\* C12: once argparser_setup has succeeded, every further call of it, with
\* whatever arguments, ends in the fatal "called twice" error and leaves
\* the registry and the setup counter as the first call left them.
C12_SetupSingleShot ==
    [][(setup_called = 1 /\ setup_calls' > setup_calls)
         => /\ status' = "exit"
            /\ err'.msg = "argparser_setup() should not be called twice"
            /\ mem' = mem
            /\ setup_called' = 1]_vars

\* C12 witness: a second call after a successful one has ended in the
\* error, and the registry of the first call is still there
C12_Witness ==
    /\ setup_calls = 2
    /\ status = "exit"
    /\ err.msg = "argparser_setup() should not be called twice"
    /\ mem.opts = options
    /\ Len(mem.grps) = 2

\* C13: a call of argparser_setup with a null table, with a table that has
\* no descriptor before the sentinel, or with a null, empty or blank
\* version ends in a fatal error and sets nothing up.
C13_SetupRejects ==
    (setup_calls >= 1
       /\ \/ setup_args.opts_null
          \/ setup_args.ver_null
          \/ Blank(setup_args.version)
          \/ Declared = <<>>) =>
        /\ status = "exit"
        /\ setup_called = 0
        /\ mem = ZeroMem
        /\ err.msg \in {"The input options is NULL", "The input version is NULL",
                         "Version cannot be empty string.",
                         "Incorrect argparser grouped"}

\* C13 witness: a table of the sentinel alone, given with a good version,
\* has been refused
C13_Witness ==
    /\ Declared = <<>>
    /\ setup_args = [NoArgs EXCEPT !.version = <<"v", "1">>]
    /\ status = "exit"
    /\ err.msg = "Incorrect argparser grouped"

\* ------------------------------------------------------------------------
\* Text layout: strwrap
\* ------------------------------------------------------------------------
WrapDone == layout_in.op = "wrap" /\ layout_out.done
WrapLines == SplitLines(layout_out.text)

\* A produced line carries the prefix and the suffix of the call
Decorated(line) ==
    /\ Len(line) >= Len(layout_in.prefix) + Len(layout_in.postfix)
    /\ SubSeq(line, 1, Len(layout_in.prefix)) = layout_in.prefix
    /\ SubSeq(line, Len(line) - Len(layout_in.postfix) + 1, Len(line))
         = layout_in.postfix
Content(line) ==
    SubSeq(line, Len(layout_in.prefix) + 1, Len(line) - Len(layout_in.postfix))
WrapContents == [k \in 1..Len(WrapLines) |-> Content(WrapLines[k])]

RECURSIVE Concat(_)
Concat(seqs) == IF seqs = <<>> THEN <<>> ELSE seqs[1] \o Concat(Tail(seqs))

\* The number of blanks of src from position pos + 1 on, up to the next
\* character that is no blank
RECURSIVE BlanksAt(_, _)
BlanksAt(src, pos) ==
    IF pos < Len(src) /\ src[pos + 1] = " " THEN 1 + BlanksAt(src, pos + 1) ELSE 0

\* The contents cs are consecutive pieces of src from position pos on, and
\* what lies between two pieces and after the last one is blanks only; the
\* first piece starts at the start of src
RECURSIVE Pieces(_, _, _, _)
Pieces(src, cs, pos, first) ==
    IF cs = <<>> THEN pos + BlanksAt(src, pos) = Len(src)
    ELSE LET start == IF first THEN pos ELSE pos + BlanksAt(src, pos)
             c == cs[1]
         IN /\ c # <<>>
            /\ start + Len(c) <= Len(src)
            /\ SubSeq(src, start + 1, start + Len(c)) = c
            /\ Pieces(src, Tail(cs), start + Len(c), FALSE)

\* C14 (as claimed): wrap never loses or changes a character of text: the
\* produced lines, without prefix, suffix and line break, concatenate to
\* text exactly.
C14_WrapKeepsText ==
    WrapDone =>
        /\ \A k \in 1..Len(WrapLines) : Decorated(WrapLines[k])
        /\ Concat(WrapContents) = layout_in.src

\* C14 (amended): wrap changes no character and loses blanks only: the
\* produced lines, without prefix, suffix and line break, are consecutive
\* pieces of text in order, the first from the start of text, and the
\* characters of text between two pieces and after the last piece are
\* blanks (the blanks that follow a line break are dropped).
C14_WrapKeepsAllButBlanks ==
    WrapDone =>
        /\ \A k \in 1..Len(WrapLines) : Decorated(WrapLines[k])
        /\ Pieces(layout_in.src, WrapContents, 0, TRUE)

\* C14 witness: of the two blanks of "a  a" wrapped at width 2 the second
\* one is dropped
C14_Witness ==
    /\ layout_in = WrapIn(<<"a", " ", " ", "a">>, 2, <<>>, <<>>)
    /\ layout_out.done
    /\ layout_out.text = <<"a", " ", NL, "a", NL>>

\* C15 (as claimed): with no prefix and no suffix and a width of at least
\* the length of text, wrap returns text followed by one line break and
\* inserts no other line break.
C15_WrapRoundTrip ==
    (WrapDone /\ layout_in.prefix = <<>> /\ layout_in.postfix = <<>>
       /\ layout_in.lw >= Len(layout_in.src)) =>
        layout_out.text = layout_in.src \o <<NL>>

\* C15 (amended): with no prefix and no suffix, a text that is not empty
\* and a width above the length of text, wrap returns text followed by one
\* line break and inserts no other line break.
C15_WrapRoundTripBelowWidth ==
    (WrapDone /\ layout_in.prefix = <<>> /\ layout_in.postfix = <<>>
       /\ layout_in.src # <<>> /\ layout_in.lw > Len(layout_in.src)) =>
        layout_out.text = layout_in.src \o <<NL>>

\* C15 witness: "a-a" at width 4 comes back on one line
C15_Witness ==
    /\ layout_in = WrapIn(<<"a", "-", "a">>, 4, <<>>, <<>>)
    /\ layout_out.done
    /\ layout_out.text = <<"a", "-", "a", NL>>

\* C16: for a width above the length of prefix and suffix together, every
\* line wrap produces, with its prefix and suffix and without its line
\* break, is at most width characters long.
C16_WrapWidthBound ==
    (WrapDone /\ layout_in.lw > Len(layout_in.prefix) + Len(layout_in.postfix)) =>
        \A k \in 1..Len(WrapLines) : Len(WrapLines[k]) <= layout_in.lw

\* C16 witness: "aaaa" at width 3 with a prefix and a suffix of one
\* character gives four lines of three characters
C16_Witness ==
    /\ layout_in = WrapIn(<<"a", "a", "a", "a">>, 3, <<">">>, <<"|">>)
    /\ layout_out.done
    /\ Len(WrapLines) = 4
    /\ \A k \in 1..4 : WrapLines[k] = <<">", "a", "|">>

\* ------------------------------------------------------------------------
\* Text layout: strjoin
\* ------------------------------------------------------------------------
JoinDone == layout_in.op = "join" /\ layout_out.done
LLines == SplitLines(layout_in.lstr)
RLines == SplitLines(layout_in.rstr)
OLines == SplitLines(layout_out.text)
Min(a, b) == IF a < b THEN a ELSE b
Max(a, b) == IF a < b THEN b ELSE a

\* Line k of right starts at column indent of output line k
AlignedAt(k) ==
    /\ k <= Len(OLines)
    /\ Len(OLines[k]) >= layout_in.indent + Len(RLines[k])
    /\ SubSeq(OLines[k], layout_in.indent + 1,
              layout_in.indent + Len(RLines[k])) = RLines[k]

\* C17 (as claimed): for all left and right and every indent, each line of
\* right starts at column indent of its output line.
C17_JoinAligned ==
    JoinDone => \A k \in 1..Len(RLines) : AlignedAt(k)

\* C17 (amended): when no line of left that stands beside a line of right
\* is longer than indent, each line of right starts at column indent of
\* its output line, whether left has more, fewer or as many lines.
C17_JoinAlignedWhenLeftFits ==
    (JoinDone /\ \A k \in 1..Min(Len(LLines), Len(RLines)) :
                    Len(LLines[k]) <= layout_in.indent) =>
        \A k \in 1..Len(RLines) : AlignedAt(k)

\* C17 witness: left has one line and right two; both lines of right start
\* at column 2
C17_Witness ==
    /\ layout_in = JoinIn(<<"l", NL>>, <<"r", NL, "r", NL>>, 2)
    /\ layout_out.done
    /\ layout_out.text = <<"l", " ", "r", NL, " ", " ", "r", NL>>

\* C18 (as claimed): every line of left is in the output in full and in
\* order: line k of left at the start of output line k while right has a
\* line k, the lines of left beyond the last line of right unchanged
\* after them, and the output has max(lines(left), lines(right)) lines.
C18_JoinKeepsLeft ==
    JoinDone =>
        /\ \A k \in 1..Min(Len(LLines), Len(RLines)) :
              /\ k <= Len(OLines)
              /\ Len(OLines[k]) >= Len(LLines[k])
              /\ SubSeq(OLines[k], 1, Len(LLines[k])) = LLines[k]
        /\ \A k \in (Len(RLines) + 1)..Len(LLines) :
              k <= Len(OLines) /\ OLines[k] = LLines[k]
        /\ Len(OLines) = Max(Len(LLines), Len(RLines))

\* ------------------------------------------------------------------------
\* The help of one option and the teardown
\* ------------------------------------------------------------------------
\* The identifiers a descriptor declares: the fields that are not empty
DeclaredIds(o) ==
    (IF o.ch_short # Nul THEN {<<o.ch_short>>} ELSE {})
    \cup (IF o.s_long # <<>> THEN {o.s_long} ELSE {})
    \cup (IF o.s_keyword # <<>> THEN {o.s_keyword} ELSE {})
AllDeclaredIds == UNION {DeclaredIds(Declared[i]) : i \in 1..Len(Declared)}

\* C19 (as claimed): argparser_opt_help returns the not-found result, with
\* the process running on, exactly when no descriptor declares a short,
\* long or keyword identifier equal to id, for every id, the empty string
\* included.
C19_OptHelpNotFound ==
    ret.op = "opt_help" =>
        /\ status = "run"
        /\ ret.null <=> ret.id \notin AllDeclaredIds

\* How often block b was passed to free
FreeCount(b) == Cardinality({k \in 1..Len(freed) : freed[k] = b})

\* C20: after a successful setup and any classification, one call of
\* argparser_clean passes every block the engine allocated to free, each
\* exactly once, and frees nothing else.
C20_TeardownReleasesAll ==
    (setup_called = 1 /\ clean_calls = 1 /\ ret.op = "clean") =>
        /\ \A b \in allocated : FreeCount(b) = 1
        /\ Range(freed) \subseteq allocated

\* C20 witness: two groups, a recorded boolean flag and a positional, all
\* released by the one call
C20_Witness ==
    /\ setup_called = 1 /\ clean_calls = 1 /\ ret.op = "clean"
    /\ parse_returns = 1
    /\ Len(mem.grps) = 2
    /\ mem.bflags # <<>> /\ mem.params # <<>>
    /\ Len(freed) = Cardinality(allocated)
    /\ Cardinality(allocated) = 14

\* ------------------------------------------------------------------------
\* The program name
\* ------------------------------------------------------------------------
\* The tokens after token 0; none when argc is 0
Rest == IF argv = <<>> THEN <<>> ELSE Tail(argv)

\* C21: only tokens after the program name are classified.  With argc <= 1
\* argparser_parse returns with value_flags, bool_flags and positionals
\* empty, and for every argument vector the three sequences are what some
\* prefix of the tokens after token 0 gives, whatever token 0 reads.  The
\* statement is about the first call; what a further call does is C1.
C21_ProgramNameSkipped ==
    (setup_called = 1 /\ parse_calls = 1) =>
        /\ Len(argv) <= 1 =>
               /\ parse_returns = 1
               /\ mem.flags = <<>> /\ mem.bflags = <<>> /\ mem.params = <<>>
        /\ \E k \in 0..Len(Rest) :
               /\ mem.params = SelectSeq(SubSeq(Rest, 1, k), NoOption)
               /\ Range(mem.flags) \cup Range(mem.bflags) = NamedBy(SubSeq(Rest, 1, k))

\* C21 witness: the program name "-a" reads like the declared short option
\* a; classify has returned and has recorded nothing
C21_Witness ==
    /\ parse_calls = 1
    /\ parse_returns = 1
    /\ argv = <<<<"-", "a">>>>
    /\ Declared = <<DescA>>
    /\ mem.bflags = <<>>

\* ------------------------------------------------------------------------
\* Duplicated flags
\* ------------------------------------------------------------------------
\* Two tokens of the argument vector, or two characters of one cluster,
\* name the same option
NamedTwice ==
    \/ \E k1, k2 \in 1..Len(Args) :
           k1 < k2 /\ NamedByTok(Args[k1]) \cap NamedByTok(Args[k2]) # {}
    \/ \E k \in 1..Len(Args) :
           /\ IsClusterTok(Args[k])
           /\ \E q1, q2 \in 2..Len(Args[k]) :
                  q1 < q2 /\ ShortIdx(Args[k][q1]) \cap ShortIdx(Args[k][q2]) # {}

\* C22 (as claimed): argparser_parse exits with an error when the command
\* line holds an unknown flag or names the same flag twice.
C22_DuplicateFlagExits ==
    (setup_called = 1 /\ parse_calls = 1) =>
        /\ FatalAt # {} => status = "exit" /\ IsParseError
        /\ NamedTwice => status = "exit" /\ IsParseError

\* ------------------------------------------------------------------------
\* Termination of strwrap
\* ------------------------------------------------------------------------
\* The text that the iterations have built is the text of the call
WrapLoopAgrees ==
    layout_out.pc = "done" =>
        layout_out.text = strwrap(<<>>, layout_in.src, layout_in.lw,
                                  layout_in.prefix, layout_in.postfix)

\* C23: strwrap terminates for every width above the length of the
\* decoration.  From one iteration of the loop to the next begin_index
\* strictly increases, the call never emits more lines than src has
\* characters, and it returns.
C23_WrapTerminates ==
    /\ [][(layout_out.pc = "loop" /\ layout_out'.pc = "loop")
            => layout_out'.begin_index > layout_out.begin_index]_vars
    /\ [](layout_out.lines <= Len(layout_in.src))
    /\ <>(layout_out.pc = "done")

\* C23 witness: a call that has returned after three iterations and a tail,
\* one line per character
C23_Witness ==
    /\ layout_out.pc = "done"
    /\ Len(layout_in.src) = 4
    /\ layout_out.lines = 4

\* ------------------------------------------------------------------------
\* The columns of a help line
\* ------------------------------------------------------------------------
\* The width of the signature column for a window of w columns
SigColumn(w) == Min(w \div 2, mem.indent + 6)

\* C24 (as claimed): for every width that get_window_width reports,
\* format_line passes strwrap a signature width above the six characters
\* of its decoration and a description width above 0.
C24_WrapPrecondition ==
    ret.width # -1 =>
        /\ SigColumn(ret.width) > 6
        /\ ret.width - SigColumn(ret.width) > 0

\* The lines of a help text that belong to option entries
IsEntryLine(line) == line # <<>> /\ ~IsHeader(line)
EntryLines(text) == SelectSeq(SplitLines(text), IsEntryLine)

Places == {gk \in (1..Len(mem.grps)) \X (1..MaxLabels + 1) :
              gk[2] <= Len(mem.grps[gk[1]].opts)}
MemberAt(gk) == mem.grps[gk[1]].opts[gk[2]]

\* C26: after a successful setup every descriptor index of the table is at
\* exactly one place of the groups, the groups hold as many members as the
\* table has descriptors, every member carries the label of its group (a
\* blank label is "Options"), and the members of a group are in table
\* order.
C26_GroupsPartition ==
    setup_called = 1 =>
        /\ \A i \in Idx : Cardinality({gk \in Places : MemberAt(gk) = i}) = 1
        /\ Cardinality(Places) = Len(Declared)
        /\ \A gk \in Places :
               /\ MemberAt(gk) \in Idx
               /\ LabelOf(Declared[MemberAt(gk) + 1]) = mem.grps[gk[1]].name
        /\ \A gk1, gk2 \in Places :
               (gk1[1] = gk2[1] /\ gk1[2] < gk2[2]) => MemberAt(gk1) < MemberAt(gk2)

\* C26 witness: a label that comes back after another one, and a
\* descriptor with a blank label
C26_Witness ==
    /\ setup_called = 1
    /\ DeclaredLabels = <<<<"A">>, DefaultGroup, <<"A">>, <<"B">>>>
    /\ mem.grps[1].opts = <<0, 2>>
    /\ mem.grps[2].name = DefaultGroup

\* ------------------------------------------------------------------------
\* The two pools of flags
\* ------------------------------------------------------------------------
\* C27: bool_flags holds indices of boolean descriptors only and
\* value_flags indices of the other descriptors only, every recorded index
\* is an index of the table, and no index is in both.
C27_PoolsByArity ==
    /\ \A k \in 1..Len(mem.bflags) :
           mem.bflags[k] \in Idx /\ Declared[mem.bflags[k] + 1].b
    /\ \A k \in 1..Len(mem.flags) :
           mem.flags[k] \in Idx /\ ~Declared[mem.flags[k] + 1].b
    /\ Range(mem.bflags) \cap Range(mem.flags) = {}

\* C27 witness: the cluster "-ab" names a boolean and a value option
C27_Witness ==
    /\ parse_returns = 1
    /\ Declared = <<DescA, DescB>>
    /\ Args = <<<<"-", "a", "b">>>>
    /\ mem.bflags = <<0>>
    /\ mem.flags = <<1>>

\* ------------------------------------------------------------------------
\* The lookup of argparser_opt_help
\* ------------------------------------------------------------------------
\* The descriptors of the table that the lookup matches with id
Resolves(id) == {i \in Idx : opt_matches(Declared[i + 1], id)}

\* C28 (as claimed): after a successful setup every identifier string
\* resolves to at most one descriptor, the short, long and keyword forms
\* taken together.
C28_UniqueLookup ==
    setup_called = 1 => \A id \in Ids : Cardinality(Resolves(id)) <= 1

\* ------------------------------------------------------------------------
\* Operations before setup
\* ------------------------------------------------------------------------
\* The messages of the tests on mem; the one of argparser_parse and of the
\* accessors is spelt "sertup"
SetupMissing == {"Incorrect argparser setup", "Incorrect argparser sertup"}

\* C29 (as claimed): a call of argparser_parse, argparser_flags,
\* argparser_bflags, argparser_params, argparser_help, argparser_opt_help
\* or argparser_version while there is no registry (every step but one of
\* argparser_setup) ends in the fatal error of a missing setup.
C29_FatalBeforeSetup ==
    [][(mem.null /\ setup_calls' = setup_calls)
         => (status' = "exit" /\ err'.msg \in SetupMissing)]_vars

\* ------------------------------------------------------------------------
\* A second teardown
\* ------------------------------------------------------------------------
\* C30 (as claimed): argparser_clean can be called again.  A further call
\* passes no block to free that an earlier call has released, and it reads
\* no released block (the process does not crash on the stale registry).
C30_CleanAgainSafe ==
    clean_calls >= 2 =>
        /\ status # "crash"
        /\ \A b \in allocated : FreeCount(b) <= 1

====
